---- MODULE Spec2Model ----
(***************************************************************************)
(* Model of biz/llm/client/bedrock.py: the BedrockClient adapter.          *)
(*                                                                         *)
(*   __init__                       construction with credential fallback  *)
(*   _convert_to_bedrock_messages   OpenAI-style messages -> Bedrock form  *)
(*   completions                    build body, invoke_model, parse / map  *)
(*                                                                         *)
(* Python values are tagged records: None is PyNone, a str is PyStr(s),    *)
(* the NOT_GIVEN sentinel is NotGivenVal.  Message contents and model ids  *)
(* are opaque TLA+ strings.  Texts that the code trims or concatenates     *)
(* (response text, returned messages) are sequences of tokens, so that     *)
(* strip() and f-string concatenation are computed, not assumed.  The      *)
(* Chinese literals of the source are written as ASCII tokens.             *)
(***************************************************************************)
EXTENDS Integers, Sequences, FiniteSets, TLC

VARIABLES
    env,            \* process environment read by os.getenv
    ctor,           \* outcome of BedrockClient.__init__
    client,         \* self.client
    default_model,  \* self.default_model
    pc,             \* position of the current completions call
    messages,       \* argument `messages`
    model,          \* argument `model`
    converted,      \* local bedrock_messages
    request,        \* arguments of the invoke_model call in flight
    invokeCount,    \* invoke_model calls issued by the current completions call
    outcome,        \* what invoke_model did: a response or a raised exception
    result          \* how completions ended: a returned str or a raised exception

vars == <<env, ctor, client, default_model, pc, messages, model, converted,
          request, invokeCount, outcome, result>>

(***************************************************************************)
(* Bounds.                                                                 *)
(***************************************************************************)
\* longest message list given to _convert_to_bedrock_messages on its own
MaxLen == 3
\* longest message list given to completions
MaxCallLen == 2

(***************************************************************************)
(* Python values.                                                          *)
(***************************************************************************)
PyNone == [t |-> "none"]
PyStr(s) == [t |-> "str", v |-> s]
NotGivenVal == [t |-> "notgiven"]
Unset == [t |-> "unset"]

\* NotGiven.__bool__ of biz/llm/types.py: the sentinel is falsy, so that
\* `model or self.default_model` treats an omitted argument as absent.
NotGivenBool == FALSE

\* Python truthiness of None, a str, or NOT_GIVEN.
Truthy(x) ==
    CASE x.t = "none" -> FALSE
      [] x.t = "str" -> x.v # ""
      [] x.t = "notgiven" -> NotGivenBool

\* dict.get(key, default) on a message dict whose values are strings.
DictGet(d, key, default) == IF key \in DOMAIN d THEN d[key] ELSE default

BoundedSeq(S, n) == UNION {[1..k -> S] : k \in 0..n}

(***************************************************************************)
(* _convert_to_bedrock_messages (lines 90-115).                            *)
(***************************************************************************)
Roles == {"system", "user", "assistant", "tool"}
Contents == {"", "Hi"}

\* Input messages: dicts with role and content, and dicts missing a key.
Messages ==
    [role : Roles, content : Contents]
      \cup {[role |-> "system"], [role |-> "user"], [content |-> "Hi"]}

TextBlock(content) == [type |-> "text", text |-> content]

\* C8 mutant: the first system message wins.
ConvertMessageFirstSystemWins(acc, message) ==
    LET role == DictGet(message, "role", "")
        content == DictGet(message, "content", "")
    IN  IF role = "system"
        THEN [acc EXCEPT !.system =
                 IF acc.system = PyNone THEN PyStr(content) ELSE @]
        ELSE IF role = "user"
        THEN [acc EXCEPT !.messages =
                 Append(@, [role |-> "user", content |-> <<TextBlock(content)>>])]
        ELSE IF role = "assistant"
        THEN [acc EXCEPT !.messages =
                 Append(@, [role |-> "assistant", content |-> <<TextBlock(content)>>])]
        ELSE acc

\* C7 mutant: the assistant branch appends with role "user".
ConvertMessageAssistantAsUser(acc, message) ==
    LET role == DictGet(message, "role", "")
        content == DictGet(message, "content", "")
    IN  IF role = "system"
        THEN [acc EXCEPT !.system = PyStr(content)]
        ELSE IF role \in {"user", "assistant"}
        THEN [acc EXCEPT !.messages =
                 Append(@, [role |-> "user", content |-> <<TextBlock(content)>>])]
        ELSE acc

\* One iteration of the for loop (lines 96-110); acc holds the two locals
\* bedrock_messages and system_message.
ConvertMessage(acc, message) ==
    LET role == DictGet(message, "role", "")
        content == DictGet(message, "content", "")
    IN  IF role = "system"
        THEN [acc EXCEPT !.system = PyStr(content)]
        ELSE IF role = "user"
        THEN [acc EXCEPT !.messages =
                 Append(@, [role |-> "user", content |-> <<TextBlock(content)>>])]
        ELSE IF role = "assistant"
        THEN [acc EXCEPT !.messages =
                 Append(@, [role |-> "assistant", content |-> <<TextBlock(content)>>])]
        ELSE acc

RECURSIVE ConvertLoop(_, _, _)
\* The for loop over messages[i..], in order.
ConvertLoop(msgs, i, acc) ==
    IF i > Len(msgs) THEN acc
    ELSE ConvertLoop(msgs, i + 1, ConvertMessage(acc, msgs[i]))

\* The whole function: locals initialised (lines 92-93), loop, returned dict.
ConvertToBedrockMessages(msgs) ==
    ConvertLoop(msgs, 1, [messages |-> <<>>, system |-> PyNone])

(***************************************************************************)
(* Specification of the conversion on its own: every message list of       *)
(* length <= MaxLen is an input.                                           *)
(***************************************************************************)
NoCall ==
    /\ model = Unset
    /\ request = Unset
    /\ invokeCount = 0
    /\ outcome = Unset
    /\ result = Unset

InitConvert ==
    /\ env = Unset
    /\ ctor = Unset
    /\ client = Unset
    /\ default_model = Unset
    /\ pc = "convert"
    /\ messages \in BoundedSeq(Messages, MaxLen)
    /\ converted = Unset
    /\ NoCall

Convert ==
    /\ pc = "convert"
    /\ converted' = ConvertToBedrockMessages(messages)
    /\ pc' = "converted"
    /\ UNCHANGED <<env, ctor, client, default_model, messages, model, request,
                   invokeCount, outcome, result>>

NextConvert == Convert

SpecConvert == InitConvert /\ [][NextConvert]_vars

(***************************************************************************)
(* Claims about the conversion.                                            *)
(***************************************************************************)
RoleOf(m) == IF "role" \in DOMAIN m THEN m.role ELSE ""
\* a message without a content key has the empty content
ContentOf(m) == IF "content" \in DOMAIN m THEN m.content ELSE ""
IsChat(m) == RoleOf(m) \in {"user", "assistant"}
SystemIndexes(msgs) == {i \in 1..Len(msgs) : RoleOf(msgs[i]) = "system"}
MaxOf(S) == CHOOSE i \in S : \A j \in S : j <= i

\* C7: the messages output is exactly the subsequence of user / assistant
\* messages, in their original order, each with its role kept and its
\* content wrapped as the one-element list [{type: "text", text: content}];
\* system messages and other roles contribute nothing.
C7_MessagesAreChatSubsequence ==
    pc = "converted" =>
        LET kept == SelectSeq(messages, IsChat)
        IN  /\ Len(converted.messages) = Len(kept)
            /\ \A i \in 1..Len(kept) :
                 /\ converted.messages[i].role = RoleOf(kept[i])
                 /\ converted.messages[i].content
                      = <<[type |-> "text", text |-> ContentOf(kept[i])]>>

\* C7 witness: a list with a dropped role between an assistant and a user
\* message has been converted.
C7_Witness ==
    /\ pc = "converted"
    /\ Len(messages) = 3
    /\ RoleOf(messages[1]) = "assistant"
    /\ RoleOf(messages[2]) = "tool"
    /\ RoleOf(messages[3]) = "user"
    /\ Len(converted.messages) = 2

\* C8: the system output is the content of the last system message, and is
\* absent (None) when there is none; other roles never change it.
C8_SystemIsLastSystemMessage ==
    pc = "converted" =>
        IF SystemIndexes(messages) = {}
        THEN converted.system = PyNone
        ELSE converted.system
               = PyStr(ContentOf(messages[MaxOf(SystemIndexes(messages))]))

\* C8 witness: two system messages with different contents, then a user
\* message; the second system content is the output.
C8_Witness ==
    /\ pc = "converted"
    /\ Len(messages) = 3
    /\ RoleOf(messages[1]) = "system" /\ ContentOf(messages[1]) = "Hi"
    /\ RoleOf(messages[2]) = "system" /\ ContentOf(messages[2]) = ""
    /\ RoleOf(messages[3]) = "user"
    /\ converted.system = PyStr("")

(***************************************************************************)
(* BedrockClient.__init__ (lines 14-35).                                   *)
(***************************************************************************)
HardcodedModel == "anthropic.claude-3-sonnet-20240229-v1:0"
HardcodedRegion == "us-east-1"

\* The environment: a variable is PyNone when unset, else the str it holds
\* (possibly empty).
Envs ==
    [BEDROCK_API_MODEL : {PyNone, PyStr(""), PyStr("model-env")},
     AWS_ACCESS_KEY_ID : {PyNone, PyStr(""), PyStr("AKIA")},
     AWS_SECRET_ACCESS_KEY : {PyNone, PyStr(""), PyStr("secret")},
     AWS_DEFAULT_REGION : {PyNone, PyStr("eu-west-1")}]

\* os.getenv(key, default): the default is used only when the variable is unset.
Getenv(e, key, default) == IF e[key] = PyNone THEN default ELSE e[key]

\* What boto3.client('bedrock-runtime') with ambient credentials can do: build
\* a client, raise NoCredentialsError, or raise something else.
AmbientOutcomes == {"ok", "NoCredentialsError", "NoRegionError"}

\* C5 mutant: construction rejected only when both keys are missing.
CredentialsMissingBoth(aws_access_key, aws_secret_key) ==
    ~Truthy(aws_access_key) /\ ~Truthy(aws_secret_key)

\* line 27: not aws_access_key or not aws_secret_key
CredentialsMissing(aws_access_key, aws_secret_key) ==
    ~Truthy(aws_access_key) \/ ~Truthy(aws_secret_key)

\* The constructor as a function of the environment and of what the ambient
\* boto3.client call did: either an adapter (client, default_model) or a raise.
BedrockClientInit(e, ambient) ==
    LET dm == Getenv(e, "BEDROCK_API_MODEL", PyStr(HardcodedModel))
        aws_access_key == Getenv(e, "AWS_ACCESS_KEY_ID", PyNone)
        aws_secret_key == Getenv(e, "AWS_SECRET_ACCESS_KEY", PyNone)
        aws_region == Getenv(e, "AWS_DEFAULT_REGION", PyStr(HardcodedRegion))
    IN  IF ambient = "ok"
        THEN [status |-> "ok", path |-> "ambient", default_model |-> dm,
              client |-> [kind |-> "ambient"]]
        ELSE IF ambient = "NoCredentialsError"
        THEN IF CredentialsMissing(aws_access_key, aws_secret_key)
             THEN [status |-> "raised", path |-> "fallback", exc |-> "ValueError"]
             ELSE [status |-> "ok", path |-> "fallback", default_model |-> dm,
                   client |-> [kind |-> "explicit",
                               aws_access_key_id |-> aws_access_key,
                               aws_secret_access_key |-> aws_secret_key,
                               region_name |-> aws_region]]
        ELSE [status |-> "raised", path |-> "ambient", exc |-> ambient]

(***************************************************************************)
(* completions (lines 37-88): request side.                                *)
(***************************************************************************)
\* Values of the `model` argument: omitted, None, empty, a model id.
ModelArgs == {NotGivenVal, PyNone, PyStr(""), PyStr("model-arg")}

\* Message lists given to completions.
CallMsgs ==
    {[role |-> "system", content |-> ""],
     [role |-> "system", content |-> "Hi"],
     [role |-> "user", content |-> "Hi"],
     [role |-> "assistant", content |-> "Hi"]}

\* C6 mutant: the explicit argument is ignored.
EffectiveModelAlwaysDefault(m, dm) == dm

\* line 42: model or self.default_model
EffectiveModel(m, dm) == IF Truthy(m) THEN m ELSE dm

\* json.dumps of a dict with str keys whose values are str, int, float and
\* lists of such dicts, and json.loads of that text: the text carries the dict.
JsonDumps(d) == [t |-> "json", v |-> d]
JsonLoads(s) == s.v

\* lines 48-54
BasePayload(conv) ==
    [messages |-> conv.messages,
     max_tokens |-> 4000,
     temperature |-> "0.7",
     top_p |-> "0.9",
     anthropic_version |-> "bedrock-2023-05-31"]

\* C2 mutant: system is added whenever it is not None.
BuildBodySystemIfNotNone(conv) ==
    LET body == JsonDumps(BasePayload(conv))
    IN  IF conv.system # PyNone
        THEN JsonDumps(JsonLoads(body) @@ ("system" :> conv.system.v))
        ELSE body

\* lines 48-60: the body, with system added when bedrock_messages["system"]
\* is truthy.
BuildBody(conv) ==
    LET body == JsonDumps(BasePayload(conv))
    IN  IF Truthy(conv.system)
        THEN JsonDumps(JsonLoads(body) @@ ("system" :> conv.system.v))
        ELSE body

(***************************************************************************)
(* What invoke_model can do.                                               *)
(***************************************************************************)
JNull == [t |-> "null"]
JStr(tokens) == [t |-> "str", v |-> tokens]
JList(s) == [t |-> "list", v |-> s]
JObj(fields) == [t |-> "object", fields |-> fields]

\* Returned messages (ASCII renderings of the literals at lines 75, 81, 83, 85).
MsgAbnormalFormat == <<"AI service returned an abnormal format, please retry later">>
MsgAuthFailed == <<"Bedrock API authentication failed, please check the AWS credentials">>
MsgParamError == <<"Bedrock API request parameter error, please check the model ID">>
MsgErrorPrefix == <<"Error calling Bedrock API: ">>

ResponseTexts ==
    {<<" ", "Hello there", " ">>, <<"Hello">>, <<"\n", " ">>, MsgAuthFailed}

\* Parsed response bodies: with and without content, content null or empty,
\* a first block without text, a first block with text.
ResponseJson ==
    {JObj([id |-> "msg_1"]),
     JObj([id |-> "msg_1", content |-> JNull]),
     JObj([id |-> "msg_1", content |-> JList(<<>>)]),
     JObj([id |-> "msg_1", content |-> JList(<<JObj([type |-> "tool_use"])>>)])}
      \cup {JObj([id |-> "msg_1",
                  content |-> JList(<<JObj([type |-> "text", text |-> JStr(tx)])>>)])
              : tx \in ResponseTexts}

\* The bytes read from response['body']: JSON text, or text that is not JSON.
ResponseBodies ==
    {[valid |-> FALSE]} \cup {[valid |-> TRUE, json |-> j] : j \in ResponseJson}

ErrorCodes ==
    {"UnauthorizedOperation", "ValidationException", "ThrottlingException",
     "AccessDeniedException"}
ErrorMessages == {"denied", "bad model id"}

\* ClientError.response: with Error.Code, with Error lacking Code, without Error.
ErrorPayloads ==
    {[ResponseMetadata |-> "meta", Error |-> [Code |-> c, Message |-> m]]
        : c \in ErrorCodes, m \in ErrorMessages}
      \cup {[ResponseMetadata |-> "meta", Error |-> [Message |-> "denied"]],
            [ResponseMetadata |-> "meta"]}

HasCode(payload) == "Error" \in DOMAIN payload /\ "Code" \in DOMAIN payload.Error

\* str(e) of a ClientError, as botocore formats it from the payload.
ClientErrorStr(payload) ==
    <<"An error occurred (",
      IF HasCode(payload) THEN payload.Error.Code ELSE "Unknown",
      ") when calling the InvokeModel operation: ",
      IF "Error" \in DOMAIN payload /\ "Message" \in DOMAIN payload.Error
      THEN payload.Error.Message ELSE "Unknown">>

Outcomes ==
    {[k |-> "response", body |-> b] : b \in ResponseBodies}
      \cup {[k |-> "raise", cls |-> "ClientError", response |-> p,
             str |-> ClientErrorStr(p)] : p \in ErrorPayloads}
      \cup {[k |-> "raise", cls |-> "EndpointConnectionError",
             str |-> <<"Could not connect to the endpoint URL">>]}

(***************************************************************************)
(* completions: response side.                                             *)
(***************************************************************************)
Return(text) == [t |-> "return", v |-> text]
Raise(cls, text) == [t |-> "raise", cls |-> cls, str |-> text]

Whitespace == {" ", "\n", "\t"}

RECURSIVE LStrip(_)
LStrip(s) == IF s # <<>> /\ Head(s) \in Whitespace THEN LStrip(Tail(s)) ELSE s

RECURSIVE RStrip(_)
RStrip(s) ==
    IF s # <<>> /\ s[Len(s)] \in Whitespace
    THEN RStrip(SubSeq(s, 1, Len(s) - 1)) ELSE s

\* str.strip()
Strip(s) == RStrip(LStrip(s))

\* Python truthiness of a parsed JSON value.
JTruthy(j) ==
    CASE j.t = "null" -> FALSE
      [] j.t = "list" -> j.v # <<>>
      [] j.t = "str" -> j.v # <<>>
      [] j.t = "object" -> DOMAIN j.fields # {}

\* lines 69-75: json.loads of the body, then the content check.
ParseResponse(body) ==
    IF ~body.valid
    THEN Raise("JSONDecodeError", <<"Expecting value: line 1 column 1 (char 0)">>)
    ELSE LET response_body == body.json.fields
         IN  IF "content" \in DOMAIN response_body
                  /\ JTruthy(response_body.content)
             THEN LET first == response_body.content.v[1].fields
                  IN  IF "text" \in DOMAIN first
                      THEN Return(Strip(first.text.v))
                      ELSE Raise("KeyError", <<"'text'">>)
             ELSE Return(MsgAbnormalFormat)

\* lines 41-75: the try block after invoke_model has returned or raised.
TryBlock(o) ==
    IF o.k = "response"
    THEN ParseResponse(o.body)
    ELSE [t |-> "raise", cls |-> o.cls, str |-> o.str, exc |-> o]

\* C4 mutant: the two fixed messages are swapped.
HandleClientErrorSwapped(e) ==
    IF ~HasCode(e.response)
    THEN Raise("KeyError", IF "Error" \in DOMAIN e.response
                           THEN <<"'Code'">> ELSE <<"'Error'">>)
    ELSE LET error_code == e.response.Error.Code
         IN  IF error_code = "UnauthorizedOperation" THEN Return(MsgParamError)
             ELSE IF error_code = "ValidationException" THEN Return(MsgAuthFailed)
             ELSE Return(MsgErrorPrefix \o e.str)

\* lines 77-85: except ClientError.  A KeyError raised by the lookup at line
\* 79 is raised inside the handler and leaves completions.
HandleClientError(e) ==
    IF ~HasCode(e.response)
    THEN Raise("KeyError", IF "Error" \in DOMAIN e.response
                           THEN <<"'Code'">> ELSE <<"'Error'">>)
    ELSE LET error_code == e.response.Error.Code
         IN  IF error_code = "UnauthorizedOperation" THEN Return(MsgAuthFailed)
             ELSE IF error_code = "ValidationException" THEN Return(MsgParamError)
             ELSE Return(MsgErrorPrefix \o e.str)

\* lines 86-88: except Exception.
HandleException(e) == Return(MsgErrorPrefix \o e.str)

\* How completions ends, given what invoke_model did.
CompletionsResult(o) ==
    LET r == TryBlock(o)
    IN  IF r.t = "return" THEN r
        ELSE IF r.cls = "ClientError" THEN HandleClientError(r.exc)
        ELSE HandleException(r)

(***************************************************************************)
(* The adapter: construction, then completions calls one after another.    *)
(***************************************************************************)
Init ==
    /\ env \in Envs
    /\ ctor = Unset
    /\ client = Unset
    /\ default_model = Unset
    /\ pc = "new"
    /\ messages = <<>>
    /\ converted = Unset
    /\ NoCall

\* BedrockClient()
Construct ==
    /\ pc = "new"
    /\ \E ambient \in AmbientOutcomes :
         LET r == BedrockClientInit(env, ambient)
         IN  /\ ctor' = [status |-> r.status, path |-> r.path, ambient |-> ambient,
                         exc |-> IF r.status = "raised" THEN r.exc ELSE "none"]
             /\ IF r.status = "ok"
                THEN /\ client' = r.client
                     /\ default_model' = r.default_model
                     /\ pc' = "idle"
                ELSE /\ UNCHANGED <<client, default_model>>
                     /\ pc' = "failed"
    /\ UNCHANGED <<env, messages, model, converted, request, invokeCount,
                   outcome, result>>

\* C10 mutant: the resolved model is stored on the adapter.
CompletionsInvokeStoresModel ==
    /\ pc = "idle"
    /\ \E ms \in BoundedSeq(CallMsgs, MaxCallLen), m \in ModelArgs :
         LET bedrock_messages == ConvertToBedrockMessages(ms)
         IN  /\ messages' = ms
             /\ model' = m
             /\ converted' = bedrock_messages
             /\ request' = [body |-> BuildBody(bedrock_messages),
                            modelId |-> EffectiveModel(m, default_model),
                            accept |-> "application/json",
                            contentType |-> "application/json"]
             /\ default_model' = EffectiveModel(m, default_model)
    /\ invokeCount' = invokeCount + 1
    /\ pc' = "invoked"
    /\ UNCHANGED <<env, ctor, client, outcome, result>>

\* completions, lines 41-67: resolve the model, convert, build the body and
\* call invoke_model.
CompletionsInvoke ==
    /\ pc = "idle"
    /\ \E ms \in BoundedSeq(CallMsgs, MaxCallLen), m \in ModelArgs :
         LET bedrock_messages == ConvertToBedrockMessages(ms)
         IN  /\ messages' = ms
             /\ model' = m
             /\ converted' = bedrock_messages
             /\ request' = [body |-> BuildBody(bedrock_messages),
                            modelId |-> EffectiveModel(m, default_model),
                            accept |-> "application/json",
                            contentType |-> "application/json"]
    /\ invokeCount' = invokeCount + 1
    /\ pc' = "invoked"
    /\ UNCHANGED <<env, ctor, client, default_model, outcome, result>>

\* self.client.invoke_model returns a response or raises.
InvokeModel ==
    /\ pc = "invoked"
    /\ outcome' \in Outcomes
    /\ pc' = "responded"
    /\ UNCHANGED <<env, ctor, client, default_model, messages, model, converted,
                   request, invokeCount, result>>

\* C9 mutant: a failed invoke is retried once.
CompletionsReturnRetries ==
    /\ pc = "responded"
    /\ IF outcome.k = "raise" /\ invokeCount < 2
       THEN /\ invokeCount' = invokeCount + 1
            /\ pc' = "invoked"
            /\ UNCHANGED result
       ELSE /\ result' = CompletionsResult(outcome)
            /\ pc' = "done"
            /\ UNCHANGED invokeCount
    /\ UNCHANGED <<env, ctor, client, default_model, messages, model, converted,
                   request, outcome>>

\* completions, lines 69-88: parse the response or map the exception, and end.
CompletionsReturn ==
    /\ pc = "responded"
    /\ result' = CompletionsResult(outcome)
    /\ pc' = "done"
    /\ UNCHANGED <<env, ctor, client, default_model, messages, model, converted,
                   request, invokeCount, outcome>>

\* The caller has the result; the locals of the call are gone.
CallerResumes ==
    /\ pc = "done"
    /\ pc' = "idle"
    /\ messages' = <<>>
    /\ converted' = Unset
    /\ model' = Unset
    /\ request' = Unset
    /\ invokeCount' = 0
    /\ outcome' = Unset
    /\ result' = Unset
    /\ UNCHANGED <<env, ctor, client, default_model>>

Next ==
    \/ Construct
    \/ CompletionsInvoke
    \/ InvokeModel
    \/ CompletionsReturn
    \/ CallerResumes

Spec == Init /\ [][Next]_vars

(***************************************************************************)
(* Claims about construction and completions.                              *)
(***************************************************************************)
InCall == pc \in {"invoked", "responded", "done"}
Absent(x) == x = PyNone \/ x = PyStr("")
LastSystemContent(msgs) == ContentOf(msgs[MaxOf(SystemIndexes(msgs))])
PayloadKeys == {"messages", "max_tokens", "temperature", "top_p", "anthropic_version"}

\* C1: completions never lets an exception reach its caller: whatever the
\* messages and whatever invoke_model did, the call ends by returning a str.
C1_AlwaysReturnsString ==
    pc = "done" => result.t = "return"

C3_SuccessReturnsTextOrAbnormal ==
    (pc = "done" /\ outcome.k = "response" /\ outcome.body.valid) =>
        LET rb == outcome.body.json.fields
            shaped == /\ "content" \in DOMAIN rb
                      /\ rb.content.t = "list"
                      /\ rb.content.v # <<>>
                      /\ "text" \in DOMAIN rb.content.v[1].fields
        IN  IF shaped
            THEN result = Return(Strip(rb.content.v[1].fields.text.v))
            ELSE result = Return(MsgAbnormalFormat)

\* C4: when invoke_model raises a service error carrying a code, the returned
\* string is fixed by the code: UnauthorizedOperation gives the authentication
\* message, ValidationException the parameter message, any other code the
\* prefix followed by the error text; and no raised outcome yields either
\* fixed message unless it is a service error with the matching code.
C4_ErrorCodeDecidesMessage ==
    (pc = "done" /\ outcome.k = "raise") =>
        LET coded == outcome.cls = "ClientError" /\ HasCode(outcome.response)
        IN  /\ coded =>
                 result = Return(
                    CASE outcome.response.Error.Code = "UnauthorizedOperation"
                           -> MsgAuthFailed
                      [] outcome.response.Error.Code = "ValidationException"
                           -> MsgParamError
                      [] OTHER -> MsgErrorPrefix \o outcome.str)
            /\ (result.t = "return" /\ result.v = MsgAuthFailed) =>
                 coded /\ outcome.response.Error.Code = "UnauthorizedOperation"
            /\ (result.t = "return" /\ result.v = MsgParamError) =>
                 coded /\ outcome.response.Error.Code = "ValidationException"

\* C4 witness: a call ended on an AccessDeniedException with the templated
\* message, not the authentication message.
C4_Witness ==
    /\ pc = "done"
    /\ outcome.k = "raise"
    /\ outcome.cls = "ClientError"
    /\ HasCode(outcome.response)
    /\ outcome.response.Error.Code = "AccessDeniedException"
    /\ result.t = "return"
    /\ SubSeq(result.v, 1, 1) = MsgErrorPrefix

\* C5: the explicit keys count only when the ambient client creation raised
\* NoCredentialsError; then a missing or empty access key or secret key makes
\* construction raise ValueError with no client, and otherwise the client is
\* built from the keys of the environment; so no adapter has a client built
\* with a missing key.
C5_NoPartialCredentials ==
    /\ ctor # Unset =>
         /\ ctor.ambient = "ok" =>
              ctor.status = "ok" /\ client = [kind |-> "ambient"]
         /\ ctor.ambient = "NoCredentialsError" =>
              IF Absent(env.AWS_ACCESS_KEY_ID) \/ Absent(env.AWS_SECRET_ACCESS_KEY)
              THEN ctor.status = "raised" /\ ctor.exc = "ValueError"
                     /\ client = Unset /\ pc = "failed"
              ELSE /\ ctor.status = "ok"
                   /\ client.kind = "explicit"
                   /\ client.aws_access_key_id = env.AWS_ACCESS_KEY_ID
                   /\ client.aws_secret_access_key = env.AWS_SECRET_ACCESS_KEY
         /\ ctor.exc = "ValueError" => ctor.ambient = "NoCredentialsError"
    /\ (client # Unset /\ client.kind = "explicit") =>
         /\ ~Absent(client.aws_access_key_id)
         /\ ~Absent(client.aws_secret_access_key)

\* C5 witness: with an access key but an empty secret key and no ambient
\* credentials, construction has raised ValueError.
C5_Witness ==
    /\ pc = "failed"
    /\ ctor.exc = "ValueError"
    /\ env.AWS_ACCESS_KEY_ID = PyStr("AKIA")
    /\ env.AWS_SECRET_ACCESS_KEY = PyStr("")
    /\ client = Unset

ConfiguredDefault ==
    IF env.BEDROCK_API_MODEL = PyNone
    THEN PyStr(HardcodedModel) ELSE env.BEDROCK_API_MODEL

\* C6 as claimed: the modelId of the invoke is the model argument whenever a
\* str is passed, and the default otherwise; the default is the configured
\* value if set, else the hardcoded id.
C6_ExplicitModelWhenProvided ==
    InCall =>
        /\ request.modelId = IF model.t = "str" THEN model ELSE default_model
        /\ default_model = ConfiguredDefault

\* C6 amended: the modelId of the invoke is the model argument whenever it is
\* a non-empty str, and the default otherwise (omitted, None or empty); the
\* default is the configured value if set, else the hardcoded id.
C6_ExplicitModelWhenNonEmpty ==
    InCall =>
        /\ request.modelId =
             IF model.t = "str" /\ model.v # "" THEN model ELSE default_model
        /\ default_model = ConfiguredDefault

\* C6 witness: a call with model "" has invoked the configured default.
C6_Witness ==
    /\ pc = "invoked"
    /\ model = PyStr("")
    /\ default_model = PyStr("model-env")
    /\ request.modelId = PyStr("model-env")

C10_ConfigImmutable ==
    [][pc # "new" => (client' = client /\ default_model' = default_model)]_vars

\* C10 witness: a call that overrode the model and ended on an exception has
\* left the configured default model and the explicit-key client in place.
C10_Witness ==
    /\ pc = "done"
    /\ model = PyStr("model-arg")
    /\ outcome.k = "raise"
    /\ default_model = PyStr("model-env")
    /\ client.kind = "explicit"
    /\ request.modelId = PyStr("model-arg")

====
